---- MODULE Spec2Model ----
(***************************************************************************)
(* Model of the shell-script analysis tools of helper-scripts:             *)
(*   dev/check_style.py  (StyleChecker)                                    *)
(*   dev/lint.py         (lint_file / main)                                *)
(*   dev/shellcheck.py   (ShellLinter / main)                              *)
(*                                                                         *)
(* A file's text is a sequence of tokens; "\n" is the newline token.  The  *)
(* substring tests of the code ('x' in content, startswith) are computed   *)
(* as contiguous-subsequence tests over the tokens.                        *)
(***************************************************************************)
EXTENDS Integers, Sequences, FiniteSets, TLC

\* ---------------------------------------------------------------- bounds
MaxFiles == 3
MaxPad == 11
MaxBodyLines == 3
MaxPermLen == 4
MaxScanLines == 6
MaxSelected == 2

\* ------------------------------------------------------ program constants
IgnoreScanLines == 10
UncaughtExitStatus == 1
MinFunctionLines == 2
NoValue == 0 - 1

\* ------------------------------------------------------- string helpers
NL == "\n"

Contains(s, needle) ==
    \E i \in 1..(Len(s) - Len(needle) + 1) :
        \A k \in 1..Len(needle) : s[i + k - 1] = needle[k]

StartsWith(s, prefix) ==
    /\ Len(prefix) <= Len(s)
    /\ SubSeq(s, 1, Len(prefix)) = prefix

\* the pieces of s between the newline tokens at positions nls (ascending)
RECURSIVE Pieces(_, _, _)
Pieces(s, from, nls) ==
    IF nls = <<>>
    THEN <<SubSeq(s, from, Len(s))>>
    ELSE <<SubSeq(s, from, Head(nls) - 1)>> \o Pieces(s, Head(nls) + 1, Tail(nls))

\* content.split('\n')
Split(s) == Pieces(s, 1, SelectSeq([i \in 1..Len(s) |-> i], LAMBDA i : s[i] = NL))

SplitLines(s) ==
    LET parts == Split(s)
    IN  IF parts[Len(parts)] = <<>> THEN SubSeq(parts, 1, Len(parts) - 1) ELSE parts

FirstN(seq, n) == SubSeq(seq, 1, IF Len(seq) < n THEN Len(seq) ELSE n)

RECURSIVE JoinLines(_)
JoinLines(ls) ==
    IF ls = <<>> THEN <<>> ELSE Head(ls) \o <<NL>> \o JoinLines(Tail(ls))

\* tokens whose first character is '#'
HashTokens == {"#", "#!"}

\* ------------------------------------------------------------ sample text
LShebangBash == <<"#!", "/bin/", "bash">>
LShebangSh == <<"#!", "/bin/", "sh">>
LShebangPy == <<"#!", "/usr/bin/env ", "python3">>
LDesc == <<"#", " ", "text">>
LSetE == <<"set", " ", "-e">>
LPipefail == <<"set", " ", "-o", " ", "pipefail">>
LEnv == <<"source", " ", "\"$REPO_ROOT/", ".sys/env/.env", "\"">>
LRedGood == <<"readonly", " ", "RED", "=", "\"", "243;139;168", "\"">>
LRedBad == <<"readonly", " ", "RED", "=", "\"", "255;0;0", "\"">>
LLog == <<"log_error", " ", "text">>
LMyRed == <<"MY_", "RED", "=", "\"", "255;0;0", "\"">>
LContext == <<"CON", "TEXT", "=", "\"", "text", "\"">>
LIndentedReadonly == <<" ", "readonly", " ", "RED", "=", "\"", "243;139;168", "\"">>
LIndentedUpper == <<" ", "NAME", "=", "\"", "text", "\"">>
LNameRedValue == <<"readonly", " ", "NAME", "=", "\"", "243;139;168", "\"">>
LLoadEnv == <<"load_env", "(", ")">>
LMarker == <<"#", " ", "STYLECHECK_IGNORE">>
LBlank == <<>>
LFuncOpen == <<"foo", "(", ")", " ", "{">>
LAssign == <<" ", "x", "=", "1">>
LLocalAssign == <<" ", "local", " ", "x", "=", "1">>
LEcho == <<" ", "echo", " ", "text">>
LFuncClose == <<"}">>
LFuncKeyword == <<"function", " ", "foo">>
LFuncCloseIndented == <<" ", "}">>

BodyClean == <<LShebangBash, LDesc, LSetE, LPipefail, LEnv>>
BodyColorBad == <<LShebangBash, LDesc, LSetE, LPipefail, LEnv, LRedBad, LLog>>
BodyNoShebang == <<LBlank, LDesc, LSetE, LPipefail, LEnv>>
BodyNoFlags == <<LShebangBash, LDesc, LEnv>>
BodyShShebang == <<LShebangSh, LDesc, LSetE, LPipefail, LEnv>>
BodyMarkerFirst == <<LMarker, LRedBad>>
BodyMarkerThird == <<LShebangBash, LDesc, LMarker, LSetE, LPipefail, LEnv, LRedGood, LLog>>
BodyPy == <<LShebangPy, LDesc, LLoadEnv>>
BodyEmpty == <<>>
BodyNoPipefail == <<LShebangBash, LDesc, LSetE, LEnv>>
BodyMyRed == <<LShebangBash, LDesc, LSetE, LPipefail, LEnv, LMyRed>>
BodyContext == <<LShebangBash, LDesc, LSetE, LPipefail, LEnv, LContext>>
BodyMixedReadonly == <<LShebangBash, LDesc, LSetE, LPipefail, LEnv, LMyRed, LIndentedReadonly,
                       LLog>>
BodyIndentedUpper == <<LShebangBash, LDesc, LSetE, LPipefail, LEnv, LIndentedUpper>>
BodyRedElsewhere == <<LShebangBash, LDesc, LSetE, LPipefail, LEnv, LRedBad, LNameRedValue, LLog>>
BodyFuncBare == <<LShebangBash, LDesc, LSetE, LPipefail, LEnv,
                  LFuncOpen, LAssign, LEcho, LEcho, LFuncClose>>
BodyFuncLocal == <<LShebangBash, LDesc, LSetE, LPipefail, LEnv,
                   LFuncOpen, LLocalAssign, LEcho, LEcho, LFuncClose>>

Bodies == {BodyClean, BodyColorBad, BodyNoShebang, BodyNoFlags, BodyShShebang,
           BodyMarkerFirst, BodyMarkerThird, BodyPy, BodyEmpty,
           BodyFuncBare, BodyFuncLocal, BodyNoPipefail,
           BodyMyRed, BodyContext, BodyRedElsewhere, BodyMixedReadonly,
           BodyIndentedUpper}

Filler(n) == [i \in 1..n |-> LDesc]

\* shell files holding one function: its body is any sequence of
\* assignments, local declarations and echo lines
FunctionBodies == UNION { [1..k -> {LAssign, LLocalAssign, LEcho}] : k \in 1..MaxBodyLines }

BodyFunc(body) ==
    <<LShebangBash, LDesc, LSetE, LPipefail, LEnv, LFuncOpen>> \o body \o <<LFuncClose>>

\* A file on disk: its name suffix, whether read_text succeeds, its text,
\* its execute bit and the verdict `bash -n` gives on it.
MkFile(sfx, body, pad, ex, syn) ==
    [suffix |-> sfx, readable |-> TRUE, content |-> JoinLines(Filler(pad) \o body),
     exec |-> ex, syntaxOk |-> syn]

Unreadable(sfx, syn) ==
    [suffix |-> sfx, readable |-> FALSE, content |-> <<>>, exec |-> TRUE, syntaxOk |-> syn]

SmallCorpus ==
    { MkFile("sh", BodyClean, 0, TRUE, TRUE),
      MkFile("sh", BodyColorBad, 0, TRUE, TRUE),
      MkFile("sh", BodyNoShebang, 0, TRUE, TRUE),
      MkFile("sh", BodyNoFlags, 0, FALSE, TRUE),
      MkFile("sh", BodyMarkerFirst, 0, TRUE, FALSE),
      MkFile("py", BodyPy, 0, TRUE, TRUE),
      Unreadable("sh", FALSE) }

Corpus ==
    { MkFile(sfx, body, pad, TRUE, TRUE) :
        sfx \in {"sh", "py"}, body \in Bodies, pad \in 0..MaxPad }
    \cup { Unreadable(sfx, syn) : sfx \in {"sh", "py"}, syn \in BOOLEAN }
    \cup { MkFile("sh", BodyFunc(b), 0, TRUE, TRUE) : b \in FunctionBodies }


\* ------------------------------------------------------- check_style.py
ColorNames == {"RED", "GREEN", "YELLOW", "BLUE", "MAUVE", "SAPPHIRE", "TEXT"}

EXPECTED_COLORS ==
    [c \in ColorNames |->
        CASE c = "RED" -> "243;139;168"
          [] c = "GREEN" -> "166;227;161"
          [] c = "YELLOW" -> "249;226;175"
          [] c = "BLUE" -> "137;180;250"
          [] c = "MAUVE" -> "203;166;247"
          [] c = "SAPPHIRE" -> "116;199;236"
          [] c = "TEXT" -> "205;214;244"]

\* config.get('SYS_DIR', '.sys') + '/env/.env'
EnvPath == ".sys/env/.env"

LoggingFunctions == {"log_error", "log_success", "log_info", "log_warn"}

\* The value a check returns and what it adds to self.warnings; errors
\* counts the findings it reports through log_error.
Finding(i, w, e) == [issues |-> i, warnings |-> w, errors |-> e]

\* variants of should_ignore: one looks at the first line only, one at
\* every line of the file
should_ignore_first_line(f) ==
    f.readable /\ Contains(Split(f.content)[1], <<"STYLECHECK_IGNORE">>)

should_ignore_all_lines(f) ==
    f.readable /\ Contains(f.content, <<"STYLECHECK_IGNORE">>)

should_ignore(f) ==
    IF ~f.readable
    THEN FALSE
    ELSE LET head == FirstN(Split(f.content), IgnoreScanLines)
         IN  \E k \in 1..Len(head) : Contains(head[k], <<"STYLECHECK_IGNORE">>)

check_colors(f) ==
    LET content == f.content
        bad == { c \in ColorNames :
                   /\ \/ Contains(content, <<"readonly", " ", c, "=">>)
                      \/ Contains(content, <<c, "=">>)
                   /\ ~Contains(content, <<EXPECTED_COLORS[c]>>) }
    IN  Finding(Cardinality(bad), Cardinality(bad), 0)

check_standards(f) ==
    LET content == f.content
        lines == Split(content)
        shebang == IF /\ lines # <<>>
                      /\ ~(\/ StartsWith(lines[1], <<"#!", "/bin/", "bash">>)
                           \/ StartsWith(lines[1], <<"#!", "/usr/bin/env ", "python3">>))
                   THEN 1 ELSE 0
        sete == IF f.suffix = "sh" /\ ~Contains(content, <<"set", " ", "-e">>)
                THEN 1 ELSE 0
        pipe == IF f.suffix = "sh" /\ ~Contains(content, <<"set", " ", "-o", " ", "pipefail">>)
                THEN 1 ELSE 0
        ro == IF /\ f.suffix = "sh"
                 /\ Contains(content, <<"RED", "=">>)
                 /\ ~Contains(content, <<"readonly", " ", "RED", "=">>)
              THEN 1 ELSE 0
    IN  Finding(shebang + sete + pipe + ro, ro, shebang + sete + pipe)

check_structure(f) ==
    LET content == f.content
        lines == Split(content)
        nolog == IF /\ f.suffix = "sh"
                    /\ Contains(content, <<"readonly", " ", "RED", "=">>)
                    /\ ~(\E fn \in LoggingFunctions : Contains(content, <<fn>>))
                 THEN 1 ELSE 0
        noenv == IF /\ f.suffix = "sh"
                    /\ ~Contains(content, <<EnvPath>>)
                    /\ ~Contains(content, <<"source", " ", "\"$REPO_ROOT/", EnvPath, "\"">>)
                 THEN 1 ELSE 0
        nodesc == IF /\ f.suffix = "sh"
                     /\ Len(lines) > 1
                     /\ ~(lines[2] # <<>> /\ lines[2][1] \in HashTokens)
                  THEN 1 ELSE 0
        noload == IF f.suffix = "py" /\ ~Contains(content, <<"load_env">>)
                  THEN 1 ELSE 0
    IN  Finding(nolog, nolog + noenv + nodesc + noload, 0)

\* check_file on a file whose text can be read (or that is ignored): what it
\* returns, what the checks found, and what it adds to the counters.
\* (the one-element sets bind each check's result once)
check_file(f) ==
    IF should_ignore(f)
    THEN [passed |-> TRUE, ignored |-> TRUE, checks |-> 0, issues |-> 0,
          warns |-> 0, errors |-> 0, addPassed |-> 0, addFailed |-> 0]
    ELSE CHOOSE r \in
            { [passed |-> (c.issues + s.issues + t.issues = 0), ignored |-> FALSE,
               checks |-> 3,
               issues |-> c.issues + s.issues + t.issues,
               warns |-> c.warnings + s.warnings + t.warnings,
               errors |-> c.errors + s.errors + t.errors,
               addPassed |-> IF c.issues + s.issues + t.issues = 0 THEN 1 ELSE 0,
               addFailed |-> IF c.issues + s.issues + t.issues = 0 THEN 0 ELSE 1] :
              c \in {check_colors(f)}, s \in {check_standards(f)},
              t \in {check_structure(f)} } : TRUE

\* the return statement that ends StyleChecker.run; first the variant
\* whose threshold is off by one
style_exit_code_off_by_one(failed) == IF failed > 1 THEN 1 ELSE 0

style_exit_code(failed) == IF failed > 0 THEN 1 ELSE 0

\* the file-system calls check_file makes on a candidate: should_ignore and
\* the three checks each call read_text
style_file_ops == {"read_text"}

\* what one pass of the loop of StyleChecker.run does with a file: raise, or
\* add to the counters
style_file_result(f) ==
    IF ~f.readable /\ ~should_ignore(f)
    THEN [crash |-> TRUE, addPassed |-> 0, addFailed |-> 0, warns |-> 0]
    ELSE CHOOSE x \in { [crash |-> FALSE, addPassed |-> r.addPassed,
                          addFailed |-> r.addFailed, warns |-> r.warns] :
                        r \in {check_file(f)} } : TRUE

\* variant of the accumulation in which the last file decides failed_files
StyleAccumulate_last_decides(acc, r) ==
    IF acc.crashed THEN acc
    ELSE IF r.crash THEN [acc EXCEPT !.crashed = TRUE]
    ELSE [acc EXCEPT !.total_files = @ + 1,
                     !.passed_files = @ + r.addPassed,
                     !.failed_files = r.addFailed,
                     !.warnings = @ + r.warns]

\* the counters after one more pass of the loop; an uncaught exception ends
\* the loop
StyleAccumulate(acc, r) ==
    IF acc.crashed THEN acc
    ELSE IF r.crash THEN [acc EXCEPT !.crashed = TRUE]
    ELSE [acc EXCEPT !.total_files = @ + 1,
                     !.passed_files = @ + r.addPassed,
                     !.failed_files = @ + r.addFailed,
                     !.warnings = @ + r.warns]

RECURSIVE StyleLoop(_, _)
StyleLoop(acc, rs) ==
    IF rs = <<>> THEN acc ELSE StyleLoop(StyleAccumulate(acc, Head(rs)), Tail(rs))

\* the loop and summary of StyleChecker.run over the per-file results rs:
\* the summary it prints and the exit status; a run ended by an exception
\* prints no summary
StyleRun(rs) ==
    LET acc == StyleLoop([crashed |-> FALSE, total_files |-> 0, passed_files |-> 0,
                          failed_files |-> 0, warnings |-> 0], rs)
    IN  IF acc.crashed
        THEN [crashed |-> TRUE, total |-> 0, passed |-> 0, failed |-> 0, warnings |-> 0,
              exitCode |-> UncaughtExitStatus]
        ELSE [crashed |-> FALSE, total |-> acc.total_files, passed |-> acc.passed_files,
              failed |-> acc.failed_files, warnings |-> acc.warnings,
              exitCode |-> style_exit_code(acc.failed_files)]

\* ext.lstrip('*.')
LStrip(ext) ==
    CASE ext = "*.sh" -> "sh"
      [] ext = ".sh" -> "sh"
      [] ext = "*.py" -> "py"
      [] OTHER -> ext

\* base_path.glob('*.' + ext) over the directory listing
Glob(dir, ext) == SelectSeq([i \in 1..Len(dir) |-> i], LAMBDA i : dir[i].suffix = ext)

RECURSIVE ExtendAll(_, _)
ExtendAll(dir, exts) ==
    IF exts = <<>> THEN <<>>
    ELSE Glob(dir, LStrip(Head(exts))) \o ExtendAll(dir, Tail(exts))

\* StyleChecker.scan_files: candidates are positions in the listing, which
\* is kept in path order
\* variant of scan_files that takes a single file only when it is a .sh file
style_scan_files_sh_only(kind, dir, exts) ==
    IF kind = "file" THEN (IF dir[1].suffix = "sh" THEN <<1>> ELSE <<>>)
    ELSE IF kind = "dir" THEN SortSeq(ExtendAll(dir, exts), <)
    ELSE <<>>

style_scan_files(kind, dir, exts) ==
    IF kind = "file" THEN <<1>>
    ELSE IF kind = "dir" THEN SortSeq(ExtendAll(dir, exts), <)
    ELSE <<>>

\* scan_files of format.py, the same function
format_scan_files(kind, dir, exts) ==
    IF kind = "file" THEN <<1>>
    ELSE IF kind = "dir" THEN SortSeq(ExtendAll(dir, exts), <)
    ELSE <<>>

TypeLists == {<<"sh", "py">>, <<"sh">>, <<"py">>, <<"sh", "*.sh">>}

\* --------------------------------------------------------------- lint.py
\* check_shebang, check_set_e, check_pipefail: each reads the file itself
\* and answers False when read_text raises
\* variant of check_shebang that lets an empty first line through
lint_check_shebang_blank_ok(f) ==
    IF ~f.readable THEN FALSE
    ELSE Split(f.content)[1] = <<>> \/ StartsWith(Split(f.content)[1], <<"#!">>)

lint_check_shebang(f) ==
    IF ~f.readable THEN FALSE ELSE StartsWith(Split(f.content)[1], <<"#!">>)

lint_check_set_e(f) ==
    IF ~f.readable THEN FALSE
    ELSE \/ Contains(f.content, <<"set", " ", "-e">>)
         \/ Contains(f.content, <<"set", " ", "-o", " ", "errexit">>)

lint_check_pipefail(f) ==
    IF ~f.readable THEN FALSE
    ELSE Contains(f.content, <<"set", " ", "-o", " ", "pipefail">>)

\* variant of lint_file that counts a missing set -e or pipefail as an issue
lint_file_flags_critical(f) ==
    CHOOSE r \in
        { [passed |-> (syn + sheb + sete + pipe = 0), issues |-> syn + sheb + sete + pipe,
           warns |-> ex] :
          syn \in {IF f.syntaxOk THEN 0 ELSE 1},
          sete \in {IF lint_check_set_e(f) THEN 0 ELSE 1},
          pipe \in {IF lint_check_pipefail(f) THEN 0 ELSE 1},
          sheb \in {IF lint_check_shebang(f) THEN 0 ELSE 1},
          ex \in {IF f.exec THEN 0 ELSE 1} } : TRUE

\* lint_file once `bash -n` could be run: (passed, issues) and the number
\* of log_warn findings
lint_file(f) ==
    CHOOSE r \in
        { [passed |-> (syn + sheb = 0), issues |-> syn + sheb,
           warns |-> sete + pipe + ex] :
          syn \in {IF f.syntaxOk THEN 0 ELSE 1},
          sete \in {IF lint_check_set_e(f) THEN 0 ELSE 1},
          pipe \in {IF lint_check_pipefail(f) THEN 0 ELSE 1},
          sheb \in {IF lint_check_shebang(f) THEN 0 ELSE 1},
          ex \in {IF f.exec THEN 0 ELSE 1} } : TRUE

lint_scan_files(kind, dir) ==
    IF kind = "file" THEN (IF dir[1].suffix = "sh" THEN <<1>> ELSE <<>>)
    ELSE IF kind = "dir" THEN SortSeq(Glob(dir, "sh"), <)
    ELSE <<>>

\* the file-system calls lint_file makes on a candidate; first the variant
\* that also sets the execute bit it reports as missing
lint_file_ops_chmod == {"bash -n", "read_text", "stat", "chmod"}

lint_file_ops == {"bash -n", "read_text", "stat"}

\* what one pass of the loop of lint.main does with a file
lint_file_result(f, bash) ==
    IF ~bash THEN [crash |-> TRUE, passed |-> FALSE, issues |-> 0]
    ELSE CHOOSE x \in { [crash |-> FALSE, passed |-> r.passed, issues |-> r.issues] :
                        r \in {lint_file(f)} } : TRUE

LintAccumulate(acc, r) ==
    IF acc.crashed THEN acc
    ELSE IF r.crash THEN [acc EXCEPT !.crashed = TRUE]
    ELSE [acc EXCEPT !.total_scripts = @ + 1,
                     !.passed_scripts = IF r.passed THEN @ + 1 ELSE @,
                     !.total_issues = @ + r.issues]

RECURSIVE LintLoop(_, _)
LintLoop(acc, rs) ==
    IF rs = <<>> THEN acc ELSE LintLoop(LintAccumulate(acc, Head(rs)), Tail(rs))

\* the loop and summary of lint.main over the per-file results rs
LintRun(rs) ==
    LET acc == LintLoop([crashed |-> FALSE, total_scripts |-> 0, passed_scripts |-> 0,
                         total_issues |-> 0], rs)
    IN  IF acc.crashed
        THEN [crashed |-> TRUE, total |-> 0, passed |-> 0, issues |-> 0,
              exitCode |-> UncaughtExitStatus]
        ELSE [crashed |-> FALSE, total |-> acc.total_scripts, passed |-> acc.passed_scripts,
              issues |-> acc.total_issues,
              exitCode |-> IF acc.total_issues = 0 THEN 0 ELSE 1]

\* --------------------------------------------------------- shellcheck.py
WS == {" ", "\t"}
UpperTokens == ColorNames \cup {"MY_", "CON", "NAME"}
LowerTokens == {"set", "source", "readonly", "text", "local", "function", "foo", "x",
                "echo", "pipefail", "errexit", "bash", "sh", "python3", "load_env",
                "log_error", "log_success", "log_info", "log_warn"}
WordTokens == UpperTokens \cup LowerTokens \cup {"STYLECHECK_IGNORE", "1"}
\* flag words matched by -[^ ]*e
DashETokens == {"-e", "-eu", "-euo"}

\* first position from i on whose token is not in S (Len + 1 when none)
RunEnd(line, i, S) ==
    CHOOSE j \in i..(Len(line) + 1) :
        /\ \A k \in i..(j - 1) : line[k] \in S
        /\ j = Len(line) + 1 \/ line[j] \notin S

At(line, i) == IF i \in 1..Len(line) THEN line[i] ELSE "<end>"

\* line.strip()
Strip(line) ==
    LET a == RunEnd(line, 1, WS)
        b == CHOOSE j \in 0..Len(line) :
                /\ \A k \in (j + 1)..Len(line) : line[k] \in WS
                /\ j = 0 \/ line[j] \notin WS
    IN  SubSeq(line, a, b)

\* [A-Z_][A-Z0-9_]*= at position i
UpperAssignAt(line, i) ==
    LET j == RunEnd(line, i, UpperTokens) IN j > i /\ At(line, j) = "="

\* [a-z_][a-z0-9_]*= at position i
LowerAssignAt(line, i) ==
    LET j == RunEnd(line, i, LowerTokens) IN j > i /\ At(line, j) = "="

sl_check_syntax(f) == IF f.syntaxOk THEN <<>> ELSE <<"Syntax error">>

\* variant of check_shebang that rejects every shebang without bash
sl_check_shebang_strict(lines) ==
    IF lines = <<>> \/ ~StartsWith(lines[1], <<"#!">>) \/ ~Contains(lines[1], <<"bash">>)
    THEN [issues |-> <<"Missing shebang line">>, warnings |-> <<>>]
    ELSE [issues |-> <<>>, warnings |-> <<>>]

sl_check_shebang(lines) ==
    IF lines = <<>> \/ ~StartsWith(lines[1], <<"#!">>)
    THEN [issues |-> <<"Missing shebang line">>, warnings |-> <<>>]
    ELSE IF ~Contains(lines[1], <<"bash">>)
         THEN [issues |-> <<>>, warnings |-> <<"Shebang might not be bash">>]
         ELSE [issues |-> <<>>, warnings |-> <<>>]

sl_check_set_flags(lines) ==
    LET has_errexit ==
            \E n \in 1..Len(lines) :
                \/ \E i \in 1..Len(lines[n]) :
                      /\ lines[n][i] = "set"
                      /\ i = 1 \/ lines[n][i - 1] \notin WordTokens
                      /\ RunEnd(lines[n], i + 1, WS) > i + 1
                      /\ At(lines[n], RunEnd(lines[n], i + 1, WS)) \in DashETokens
                \/ Contains(lines[n], <<"set", " ", "-o", " ", "errexit">>)
        has_pipefail ==
            \E n \in 1..Len(lines) : Contains(lines[n], <<"set", " ", "-o", " ", "pipefail">>)
    IN  (IF has_errexit THEN <<>> ELSE <<"Missing 'set -e' or 'set -o errexit'">>)
        \o (IF has_pipefail THEN <<>> ELSE <<"Missing 'set -o pipefail'">>)

sl_check_executable(f) == IF f.exec THEN <<>> ELSE <<"Script is not executable">>

\* variant of check_readonly_usage that does not strip the line
sl_check_readonly_usage_unstripped(lines) ==
    LET has_readonly ==
            \E n \in 1..Len(lines) :
                \E t \in {lines[n]} :
                    /\ At(t, 1) = "readonly"
                    /\ RunEnd(t, 2, WS) > 2
                    /\ UpperAssignAt(t, RunEnd(t, 2, WS))
        uppercase_vars == \E n \in 1..Len(lines) : UpperAssignAt(lines[n], 1)
    IN  IF uppercase_vars /\ ~has_readonly
        THEN <<"Uppercase variables found but not marked 'readonly'">>
        ELSE <<>>

sl_check_readonly_usage(lines) ==
    LET has_readonly ==
            \E n \in 1..Len(lines) :
                \E t \in {Strip(lines[n])} :
                    /\ At(t, 1) = "readonly"
                    /\ RunEnd(t, 2, WS) > 2
                    /\ UpperAssignAt(t, RunEnd(t, 2, WS))
        uppercase_vars == \E n \in 1..Len(lines) : UpperAssignAt(lines[n], 1)
    IN  IF uppercase_vars /\ ~has_readonly
        THEN <<"Uppercase variables found but not marked 'readonly'">>
        ELSE <<>>

\* ^\s*(function\s+\w+|[a-z_][a-z0-9_]*\(\s*\)\s*{)
IsFunctionDecl(line) ==
    \E i \in {RunEnd(line, 1, WS)} :
        \/ /\ At(line, i) = "function"
           /\ RunEnd(line, i + 1, WS) > i + 1
           /\ At(line, RunEnd(line, i + 1, WS)) \in WordTokens
        \/ \E j \in {RunEnd(line, i, LowerTokens)} :
              /\ j > i
              /\ At(line, j) = "("
              /\ \E k \in {RunEnd(line, j + 1, WS)} :
                    /\ At(line, k) = ")"
                    /\ At(line, RunEnd(line, k + 1, WS)) = "{"

\* \blocal\b; first the variant that never sees the word
HasLocalWord_never(line) == FALSE

HasLocalWord(line) ==
    \E i \in 1..Len(line) :
        /\ line[i] = "local"
        /\ i = 1 \/ line[i - 1] \notin WordTokens
        /\ At(line, i + 1) \notin WordTokens

\* ^\s*[a-z_][a-z0-9_]*= and not ^\s*readonly\b
IsBareAssignment(line) ==
    \E i \in {RunEnd(line, 1, WS)} :
        /\ LowerAssignAt(line, i)
        /\ ~(At(line, i) = "readonly" /\ At(line, i + 1) \notin WordTokens)

FnInit == [in_function |-> FALSE, has_local |-> FALSE,
           has_variable_assignment |-> FALSE, function_lines |-> 0, warnings |-> <<>>]

\* variant of the loop body in which a declaration line inside a function
\* closes the function before it opens the next
FnStep_declaration_closes(st, line) ==
    IF IsFunctionDecl(line)
    THEN [st EXCEPT !.in_function = TRUE, !.has_local = FALSE,
                    !.has_variable_assignment = FALSE, !.function_lines = 0,
                    !.warnings = IF /\ st.in_function
                                    /\ st.has_variable_assignment
                                    /\ ~st.has_local
                                    /\ st.function_lines > MinFunctionLines
                                 THEN Append(@, "Function assigns variables without 'local'")
                                 ELSE @]
    ELSE IF st.in_function /\ Strip(line) = <<"}">>
    THEN [st EXCEPT !.in_function = FALSE,
                    !.warnings = IF /\ st.has_variable_assignment
                                    /\ ~st.has_local
                                    /\ st.function_lines > MinFunctionLines
                                 THEN Append(@, "Function assigns variables without 'local'")
                                 ELSE @]
    ELSE IF st.in_function
    THEN [st EXCEPT !.function_lines = @ + 1,
                    !.has_local = @ \/ HasLocalWord(line),
                    !.has_variable_assignment = @ \/ IsBareAssignment(line)]
    ELSE st

\* one iteration of the loop of check_function_locals
FnStep(st, line) ==
    IF IsFunctionDecl(line)
    THEN [st EXCEPT !.in_function = TRUE, !.has_local = FALSE,
                    !.has_variable_assignment = FALSE, !.function_lines = 0]
    ELSE IF st.in_function /\ Strip(line) = <<"}">>
    THEN [st EXCEPT !.in_function = FALSE,
                    !.warnings = IF /\ st.has_variable_assignment
                                    /\ ~st.has_local
                                    /\ st.function_lines > MinFunctionLines
                                 THEN Append(@, "Function assigns variables without 'local'")
                                 ELSE @]
    ELSE IF st.in_function
    THEN [st EXCEPT !.function_lines = @ + 1,
                    !.has_local = @ \/ HasLocalWord(line),
                    !.has_variable_assignment = @ \/ IsBareAssignment(line)]
    ELSE st

RECURSIVE FnScan(_, _)
FnScan(st, lines) ==
    IF lines = <<>> THEN st ELSE FnScan(FnStep(st, Head(lines)), Tail(lines))

sl_check_function_locals(lines) == FnScan(FnInit, lines).warnings

\* the file-system calls ShellLinter makes on its script
sl_file_ops == {"read_text", "bash -n", "stat"}

\* ShellLinter.lint on a file that could be read, with bash present: the
\* issues and warnings lists in the order the checks append to them
sl_lint(f) ==
    CHOOSE r \in
        { [issues |-> sl_check_syntax(f) \o sheb.issues,
           warnings |-> sheb.warnings \o sl_check_set_flags(lines)
                        \o sl_check_executable(f) \o sl_check_readonly_usage(lines)
                        \o sl_check_function_locals(lines)] :
          lines \in {SplitLines(f.content)},
          sheb \in {sl_check_shebang(SplitLines(f.content))} } : TRUE

\* base_path.exists() in main; first the variant that takes every path
\* to exist
path_exists_always(kind) == TRUE

path_exists(kind) == kind # "missing"

\* ------------------------------------------------------------------ state
VARIABLES tool, base, fs, types, bashAvailable,
          pc, files, idx, exitCode, fatal, log,
          total_files, passed_files, failed_files, warnings,
          total_scripts, passed_scripts, total_issues, total_warnings, passed,
          effects,
          checkMode, shfmtInstalled, formatted, unchanged, failed,
          docker, dockerfile, exists, running, cmds,
          scanLines, scanPos, scanSt,
          target, selected, deployed

vars == <<tool, base, fs, types, bashAvailable, pc, files, idx, exitCode, fatal, log,
          total_files, passed_files, failed_files, warnings,
          total_scripts, passed_scripts, total_issues, total_warnings, passed, effects,
          checkMode, shfmtInstalled, formatted, unchanged, failed,
          docker, dockerfile, exists, running, cmds, scanLines, scanPos, scanSt,
          target, selected, deployed>>

style_counters == <<total_files, passed_files, failed_files, warnings>>
lint_counters == <<total_scripts, passed_scripts>>
sl_counters == <<total_warnings, passed>>

inputs == <<tool, base, fs, types, bashAvailable>>

\* the state of format.py, and what the analysis tools never touch
format_vars == <<checkMode, shfmtInstalled, formatted, unchanged, failed>>
\* the state of rebuild.py, start.py and stop.py: the docker installation, the
\* Dockerfile, the container, and the docker commands issued so far
docker_vars == <<docker, dockerfile, exists, running, cmds>>
\* check_function_locals taken line by line: the lines, the position of
\* the loop, and its local variables
scan_vars == <<scanLines, scanPos, scanSt>>
\* the state of install.py: the files of the target directory, the scripts
\* the user selected, the number deployed
install_vars == <<target, selected, deployed>>
other_programs == <<format_vars, docker_vars, scan_vars, install_vars>>
not_format == <<docker_vars, scan_vars, install_vars>>

\* the state only the analysis tools use
analysis_only == <<bashAvailable, log, style_counters, lint_counters, total_issues, sl_counters>>

Listings ==
    UNION { [1..n -> SmallCorpus] : n \in 0..MaxFiles } \cup { <<f>> : f \in Corpus }

Init ==
    /\ tool \in {"check_style", "lint", "shellcheck"}
    /\ base \in {"dir", "file", "missing"}
    /\ tool = "shellcheck" => base = "dir"
    /\ fs \in Listings
    /\ base = "file" => Len(fs) = 1
    /\ base = "missing" => fs = <<>>
    /\ types \in TypeLists
    /\ fs \notin UNION { [1..n -> SmallCorpus] : n \in 0..MaxFiles } => types = <<"sh", "py">>
    /\ bashAvailable \in BOOLEAN
    /\ tool = "check_style" => bashAvailable
    /\ tool # "check_style" => types = <<"sh", "py">>
    /\ pc = "start"
    /\ files = <<>>
    /\ idx = 1
    /\ exitCode = NoValue
    /\ fatal = "none"
    /\ log = <<>>
    /\ effects = {}
    /\ total_files = 0
    /\ passed_files = 0
    /\ failed_files = 0
    /\ warnings = 0
    /\ total_scripts = 0
    /\ passed_scripts = 0
    /\ total_issues = 0
    /\ total_warnings = 0
    /\ passed = 0
    /\ checkMode = FALSE /\ shfmtInstalled = FALSE
    /\ formatted = 0 /\ unchanged = 0 /\ failed = 0
    /\ docker = "up" /\ dockerfile = FALSE /\ exists = FALSE /\ running = FALSE
    /\ cmds = <<>>
    /\ scanLines = <<>> /\ scanPos = 1 /\ scanSt = FnInit
    /\ target = <<>> /\ selected = <<>> /\ deployed = 0

\* check_style.main up to the loop of StyleChecker.run
StyleMain ==
    /\ tool = "check_style" /\ pc = "start"
    /\ IF ~path_exists(base)
       THEN /\ pc' = "done" /\ exitCode' = 1 /\ files' = files
            /\ fatal' = "Path not found"
       ELSE LET found == style_scan_files(base, fs, types)
            IN  /\ files' = found
                /\ IF found = <<>>
                   THEN pc' = "done" /\ exitCode' = 1 /\ fatal' = "No files found"
                   ELSE pc' = "loop" /\ exitCode' = exitCode /\ fatal' = fatal
    /\ UNCHANGED effects
    /\ UNCHANGED <<inputs, idx, log, style_counters, lint_counters, total_issues, sl_counters>>
    /\ UNCHANGED other_programs

\* one iteration of the loop of StyleChecker.run
StyleCheckFile ==
    /\ tool = "check_style" /\ pc = "loop"
    /\ LET f == fs[files[idx]]
       IN  IF ~f.readable /\ ~should_ignore(f)
           THEN \* read_text raises inside check_colors; nothing catches it
                /\ pc' = "crashed"
                /\ exitCode' = UncaughtExitStatus
                /\ UNCHANGED <<idx, log, style_counters>>
           ELSE \E r \in {check_file(f)} :
                    /\ log' = Append(log, [file |-> files[idx], passed |-> r.passed,
                                           ignored |-> r.ignored, checks |-> r.checks,
                                           issues |-> r.issues, warns |-> r.warns,
                                           errors |-> r.errors])
                    /\ passed_files' = passed_files + r.addPassed
                    /\ failed_files' = failed_files + r.addFailed
                    /\ warnings' = warnings + r.warns
                    /\ total_files' = total_files + 1
                    /\ idx' = idx + 1
                    /\ pc' = IF idx = Len(files) THEN "summary" ELSE "loop"
                    /\ exitCode' = exitCode
    /\ effects' = effects \cup { <<files[idx], op>> : op \in style_file_ops }
    /\ UNCHANGED <<inputs, fatal, files, lint_counters, total_issues, sl_counters>>
    /\ UNCHANGED other_programs

\* the summary and return value of StyleChecker.run
StyleSummary ==
    /\ tool = "check_style" /\ pc = "summary"
    /\ exitCode' = style_exit_code(failed_files)
    /\ pc' = "done"
    /\ UNCHANGED effects
    /\ UNCHANGED <<inputs, fatal, files, idx, log, style_counters, lint_counters, total_issues, sl_counters>>
    /\ UNCHANGED other_programs

\* lint.main up to its loop
LintMain ==
    /\ tool = "lint" /\ pc = "start"
    /\ IF ~path_exists(base)
       THEN /\ pc' = "done" /\ exitCode' = 1 /\ files' = files
            /\ fatal' = "Path not found"
       ELSE \E found \in {lint_scan_files(base, fs)} :
                /\ files' = found
                /\ IF found = <<>>
                   THEN pc' = "done" /\ exitCode' = 1 /\ fatal' = "No shell scripts found"
                   ELSE pc' = "loop" /\ exitCode' = exitCode /\ fatal' = fatal
    /\ UNCHANGED effects
    /\ UNCHANGED <<inputs, idx, log, style_counters, lint_counters, total_issues, sl_counters>>
    /\ UNCHANGED other_programs

\* one iteration of the loop of lint.main
LintFile ==
    /\ tool = "lint" /\ pc = "loop"
    /\ IF ~bashAvailable
       THEN \* subprocess.run raises FileNotFoundError; check_syntax catches
            \* CalledProcessError only
            /\ pc' = "crashed"
            /\ exitCode' = UncaughtExitStatus
            /\ UNCHANGED <<idx, log, lint_counters, total_issues>>
       ELSE \E r \in {lint_file(fs[files[idx]])} :
                /\ log' = Append(log, [file |-> files[idx], passed |-> r.passed,
                                       ignored |-> FALSE, checks |-> 5,
                                       issues |-> r.issues, warns |-> r.warns,
                                       errors |-> r.issues])
                /\ total_scripts' = total_scripts + 1
                /\ passed_scripts' = IF r.passed THEN passed_scripts + 1 ELSE passed_scripts
                /\ total_issues' = total_issues + r.issues
                /\ idx' = idx + 1
                /\ pc' = IF idx = Len(files) THEN "summary" ELSE "loop"
                /\ exitCode' = exitCode
    /\ effects' = effects \cup { <<files[idx], op>> : op \in lint_file_ops }
    /\ UNCHANGED <<inputs, fatal, files, style_counters, sl_counters>>
    /\ UNCHANGED other_programs

\* the summary and return value of lint.main
LintSummary ==
    /\ tool = "lint" /\ pc = "summary"
    /\ exitCode' = IF total_issues = 0 THEN 0 ELSE 1
    /\ pc' = "done"
    /\ UNCHANGED effects
    /\ UNCHANGED <<inputs, fatal, files, idx, log, style_counters, lint_counters, total_issues, sl_counters>>
    /\ UNCHANGED other_programs

\* shellcheck.main up to its loop: sorted(Path.cwd().glob('*.sh'))
ShellcheckMain ==
    /\ tool = "shellcheck" /\ pc = "start"
    /\ \E found \in {SortSeq(Glob(fs, "sh"), <)} :
            /\ files' = found
            /\ pc' = IF found = <<>> THEN "summary" ELSE "loop"
    /\ UNCHANGED effects
    /\ UNCHANGED <<inputs, fatal, idx, exitCode, log, style_counters, lint_counters, total_issues, sl_counters>>
    /\ UNCHANGED other_programs

\* one iteration of the loop of shellcheck.main
ShellcheckFile ==
    /\ tool = "shellcheck" /\ pc = "loop"
    /\ IF ~fs[files[idx]].readable \/ ~bashAvailable
       THEN \* read_text raises in ShellLinter.__init__, or subprocess.run
            \* raises FileNotFoundError in check_syntax; nothing catches either
            /\ pc' = "crashed"
            /\ exitCode' = UncaughtExitStatus
            /\ UNCHANGED <<idx, log, total_issues, sl_counters>>
       ELSE \E r \in {sl_lint(fs[files[idx]])} :
                /\ log' = Append(log, [file |-> files[idx], passed |-> (r.issues = <<>>),
                                       ignored |-> FALSE, checks |-> 6,
                                       issues |-> Len(r.issues), warns |-> Len(r.warnings),
                                       errors |-> Len(r.issues)])
                /\ total_issues' = total_issues + Len(r.issues)
                /\ total_warnings' = total_warnings + Len(r.warnings)
                /\ passed' = IF r.issues = <<>> THEN passed + 1 ELSE passed
                /\ idx' = idx + 1
                /\ pc' = IF idx = Len(files) THEN "summary" ELSE "loop"
                /\ exitCode' = exitCode
    /\ effects' = effects \cup { <<files[idx], op>> : op \in sl_file_ops }
    /\ UNCHANGED <<inputs, fatal, files, style_counters, lint_counters>>
    /\ UNCHANGED other_programs

\* the summary and return value of shellcheck.main
ShellcheckSummary ==
    /\ tool = "shellcheck" /\ pc = "summary"
    /\ exitCode' = IF total_issues = 0 THEN 0 ELSE 1
    /\ pc' = "done"
    /\ UNCHANGED effects
    /\ UNCHANGED <<inputs, fatal, files, idx, log, style_counters, lint_counters, total_issues, sl_counters>>
    /\ UNCHANGED other_programs

Next ==
    \/ StyleMain \/ StyleCheckFile \/ StyleSummary
    \/ LintMain \/ LintFile \/ LintSummary
    \/ ShellcheckMain \/ ShellcheckFile \/ ShellcheckSummary

Spec == Init /\ [][Next]_vars

\* -------------------------------------------------------------- format.py
\* What shfmt makes of a file: "clean" (shfmt -d exits 0), "dirty" (shfmt -d
\* exits non-zero and shfmt -w rewrites the file), "stuck" (shfmt -d exits
\* non-zero and shfmt -w fails: a parse error, or a file that cannot be
\* written)
ShfmtStates == {"clean", "dirty", "stuck"}

FormatFiles == [suffix : {"sh", "py"}, shfmt : ShfmtStates]

\* variant of format_file that rewrites the file in check mode too
format_file_check_writes(st, check_mode) ==
    IF st = "clean" THEN [ret |-> 1, ops |-> {"shfmt -d"}, after |-> st]
    ELSE IF st = "dirty"
    THEN [ret |-> 0, ops |-> {"shfmt -d", "shfmt -w"}, after |-> "clean"]
    ELSE [ret |-> 2, ops |-> {"shfmt -d", "shfmt -w"}, after |-> st]

\* format_file: its return value (0 formatted or needs formatting,
\* 1 unchanged, 2 failed), the shfmt calls it makes on the file and the
\* state it leaves the file in
format_file(st, check_mode) ==
    IF st = "clean" THEN [ret |-> 1, ops |-> {"shfmt -d"}, after |-> st]
    ELSE IF check_mode THEN [ret |-> 0, ops |-> {"shfmt -d"}, after |-> st]
    ELSE IF st = "dirty"
    THEN [ret |-> 0, ops |-> {"shfmt -d", "shfmt -w"}, after |-> "clean"]
    ELSE [ret |-> 2, ops |-> {"shfmt -d", "shfmt -w"}, after |-> st]

\* the return statements that end format.main
format_exit_code(nformatted, nfailed, check_mode) ==
    IF nfailed > 0 THEN 1
    ELSE IF nformatted > 0 THEN (IF check_mode THEN 1 ELSE 0)
    ELSE 0

FormatListings == UNION { [1..n -> FormatFiles] : n \in 0..MaxFiles }

FormatInit ==
    /\ tool = "format"
    /\ base \in {"dir", "file", "missing"}
    /\ fs \in FormatListings
    /\ base = "file" => Len(fs) = 1
    /\ base = "missing" => fs = <<>>
    /\ types \in {<<"sh">>, <<"sh", "py">>}
    /\ checkMode \in BOOLEAN
    /\ shfmtInstalled \in BOOLEAN
    /\ bashAvailable = TRUE
    /\ pc = "start"
    /\ files = <<>>
    /\ idx = 1
    /\ exitCode = NoValue
    /\ fatal = "none"
    /\ log = <<>>
    /\ effects = {}
    /\ total_files = 0 /\ passed_files = 0 /\ failed_files = 0 /\ warnings = 0
    /\ total_scripts = 0 /\ passed_scripts = 0 /\ total_issues = 0
    /\ total_warnings = 0 /\ passed = 0
    /\ formatted = 0 /\ unchanged = 0 /\ failed = 0
    /\ docker = "up" /\ dockerfile = FALSE /\ exists = FALSE /\ running = FALSE
    /\ cmds = <<>>
    /\ scanLines = <<>> /\ scanPos = 1 /\ scanSt = FnInit
    /\ target = <<>> /\ selected = <<>> /\ deployed = 0

\* format.main up to its loop: check_shfmt, the path test, scan_files
FormatMain ==
    /\ tool = "format" /\ pc = "start"
    /\ IF ~shfmtInstalled
       THEN /\ pc' = "done" /\ exitCode' = 1 /\ files' = files
            /\ fatal' = "shfmt is not installed"
       ELSE IF ~path_exists(base)
       THEN /\ pc' = "done" /\ exitCode' = 1 /\ files' = files
            /\ fatal' = "Path not found"
       ELSE \E found \in {format_scan_files(base, fs, types)} :
                /\ files' = found
                /\ IF found = <<>>
                   THEN pc' = "done" /\ exitCode' = 1 /\ fatal' = "No files found"
                   ELSE pc' = "loop" /\ exitCode' = exitCode /\ fatal' = fatal
    /\ UNCHANGED <<tool, base, fs, types, idx, effects, format_vars, analysis_only>>
    /\ UNCHANGED not_format

\* one iteration of the loop of format.main
FormatFile ==
    /\ tool = "format" /\ pc = "loop"
    /\ \E r \in {format_file(fs[files[idx]].shfmt, checkMode)} :
          /\ formatted' = IF r.ret = 0 THEN formatted + 1 ELSE formatted
          /\ unchanged' = IF r.ret = 1 THEN unchanged + 1 ELSE unchanged
          /\ failed' = IF r.ret = 2 THEN failed + 1 ELSE failed
          /\ effects' = effects \cup { <<files[idx], op>> : op \in r.ops }
          /\ fs' = [fs EXCEPT ![files[idx]].shfmt = r.after]
    /\ idx' = idx + 1
    /\ pc' = IF idx = Len(files) THEN "summary" ELSE "loop"
    /\ UNCHANGED <<tool, base, types, files, exitCode, fatal, checkMode, shfmtInstalled,
                   analysis_only>>
    /\ UNCHANGED not_format

\* the summary and return value of format.main
FormatSummary ==
    /\ tool = "format" /\ pc = "summary"
    /\ exitCode' = format_exit_code(formatted, failed, checkMode)
    /\ pc' = "done"
    /\ UNCHANGED <<tool, base, fs, types, files, idx, fatal, effects, format_vars,
                   analysis_only>>
    /\ UNCHANGED not_format

FormatNext == FormatMain \/ FormatFile \/ FormatSummary

FormatSpec == FormatInit /\ [][FormatNext]_vars

\* ---------------------------------- docker/rebuild.py, start.py, stop.py
\* The docker installation is "up", "down" (every docker command exits
\* non-zero: CalledProcessError) or "absent" (no docker binary:
\* FileNotFoundError, which nothing catches).
DockerStates == {"up", "down", "absent"}

\* is_running and container_exists of rebuild.py: `docker ps` filtered on
\* the name; a failing command answers False
rebuild_is_running(d, r) == d = "up" /\ r

rebuild_container_exists(d, e) == d = "up" /\ e

\* is_running and container_exists of start.py
is_running(d, r) == d = "up" /\ r

container_exists(d, e) == d = "up" /\ e

\* is_running of stop.py
stop_is_running(d, r) == d = "up" /\ r

\* the ways a docker command that changes something can end
Outcomes(d, possible) == IF d = "up" /\ possible THEN BOOLEAN ELSE {FALSE}

\* the state the other programs leave alone
not_docker == <<base, fs, types, files, idx, fatal, effects, format_vars, analysis_only,
                scan_vars, install_vars>>

DockerInit ==
    /\ tool \in {"rebuild", "start", "stop"}
    /\ docker \in DockerStates
    /\ dockerfile \in BOOLEAN
    /\ tool # "rebuild" => dockerfile
    /\ exists \in BOOLEAN
    /\ running \in BOOLEAN
    /\ running => exists
    /\ cmds = <<>>
    /\ pc = "start"
    /\ exitCode = NoValue
    /\ base = "dir" /\ fs = <<>> /\ types = <<"sh">> /\ files = <<>> /\ idx = 1
    /\ fatal = "none" /\ effects = {}
    /\ bashAvailable = TRUE /\ log = <<>>
    /\ total_files = 0 /\ passed_files = 0 /\ failed_files = 0 /\ warnings = 0
    /\ total_scripts = 0 /\ passed_scripts = 0 /\ total_issues = 0
    /\ total_warnings = 0 /\ passed = 0
    /\ checkMode = FALSE /\ shfmtInstalled = FALSE
    /\ formatted = 0 /\ unchanged = 0 /\ failed = 0
    /\ scanLines = <<>> /\ scanPos = 1 /\ scanSt = FnInit
    /\ target = <<>> /\ selected = <<>> /\ deployed = 0

\* rebuild.main: the Dockerfile test
RebuildDockerfile ==
    /\ tool = "rebuild" /\ pc = "start"
    /\ IF ~dockerfile
       THEN pc' = "done" /\ exitCode' = 1
       ELSE pc' = "stop" /\ exitCode' = exitCode
    /\ UNCHANGED <<tool, docker_vars, not_docker>>

\* rebuild.main: stop the container if is_running says it runs; as stop.py
\* expects, the container may be running again one second after the stop
RebuildStop ==
    /\ tool = "rebuild" /\ pc = "stop"
    /\ IF docker = "absent"
       THEN /\ pc' = "crashed" /\ exitCode' = UncaughtExitStatus
            /\ UNCHANGED <<running, cmds>>
       ELSE IF rebuild_is_running(docker, running)
       THEN \E ok \in Outcomes(docker, TRUE) :
                /\ cmds' = Append(cmds, [cmd |-> "stop", ok |-> ok])
                /\ running' \in (IF ok THEN BOOLEAN ELSE {running})
                /\ IF ok THEN pc' = "build" /\ exitCode' = exitCode
                         ELSE pc' = "done" /\ exitCode' = 1
       ELSE /\ pc' = "build" /\ exitCode' = exitCode
            /\ UNCHANGED <<running, cmds>>
    /\ UNCHANGED <<tool, docker, dockerfile, exists, not_docker>>

\* variant of the build step that goes on after a failed build
RebuildBuild_ignores_failure ==
    /\ tool = "rebuild" /\ pc = "build"
    /\ \E ok \in Outcomes(docker, TRUE) :
          /\ cmds' = Append(cmds, [cmd |-> "build", ok |-> ok])
          /\ pc' = "remove" /\ exitCode' = exitCode
    /\ UNCHANGED <<tool, docker, dockerfile, exists, running, not_docker>>

\* rebuild.main: docker build
RebuildBuild ==
    /\ tool = "rebuild" /\ pc = "build"
    /\ \E ok \in Outcomes(docker, TRUE) :
          /\ cmds' = Append(cmds, [cmd |-> "build", ok |-> ok])
          /\ IF ok THEN pc' = "remove" /\ exitCode' = exitCode
                   ELSE pc' = "done" /\ exitCode' = 1
    /\ UNCHANGED <<tool, docker, dockerfile, exists, running, not_docker>>

\* rebuild.main: remove the old container if container_exists says there is
\* one, then the closing messages; main returns without starting anything
RebuildRemove ==
    /\ tool = "rebuild" /\ pc = "remove"
    /\ IF rebuild_container_exists(docker, exists)
       THEN \E ok \in Outcomes(docker, ~running) :
                /\ cmds' = Append(cmds, [cmd |-> "rm", ok |-> ok])
                /\ exists' = IF ok THEN FALSE ELSE exists
                /\ pc' = "done"
                /\ exitCode' = IF ok THEN 0 ELSE 1
       ELSE /\ pc' = "done" /\ exitCode' = 0
            /\ UNCHANGED <<exists, cmds>>
    /\ UNCHANGED <<tool, docker, dockerfile, running, not_docker>>

\* start.main: the container_exists test
StartExists ==
    /\ tool = "start" /\ pc = "start"
    /\ IF docker = "absent"
       THEN pc' = "crashed" /\ exitCode' = UncaughtExitStatus
       ELSE IF ~container_exists(docker, exists)
       THEN pc' = "done" /\ exitCode' = 1
       ELSE pc' = "check_running" /\ exitCode' = exitCode
    /\ UNCHANGED <<tool, docker_vars, not_docker>>

\* start.main: the is_running test before the start
StartAlreadyRunning ==
    /\ tool = "start" /\ pc = "check_running"
    /\ IF is_running(docker, running)
       THEN pc' = "done" /\ exitCode' = 0
       ELSE pc' = "issue" /\ exitCode' = exitCode
    /\ UNCHANGED <<tool, docker_vars, not_docker>>

\* start.main: docker start; a started container may have exited again by
\* the time the two seconds of sleep are over
StartIssue ==
    /\ tool = "start" /\ pc = "issue"
    /\ \E ok \in Outcomes(docker, exists) :
          /\ cmds' = Append(cmds, [cmd |-> "start", ok |-> ok])
          /\ IF ok
             THEN /\ running' \in BOOLEAN
                  /\ pc' = "verify" /\ exitCode' = exitCode
             ELSE /\ running' = running
                  /\ pc' = "done" /\ exitCode' = 1
    /\ UNCHANGED <<tool, docker, dockerfile, exists, not_docker>>

\* variant of the last step that reports success without looking
StartVerify_unverified ==
    /\ tool = "start" /\ pc = "verify"
    /\ pc' = "done"
    /\ exitCode' = 0
    /\ UNCHANGED <<tool, docker_vars, not_docker>>

\* start.main: the is_running test after the start
StartVerify ==
    /\ tool = "start" /\ pc = "verify"
    /\ pc' = "done"
    /\ exitCode' = IF is_running(docker, running) THEN 0 ELSE 1
    /\ UNCHANGED <<tool, docker_vars, not_docker>>

\* stop.main: the is_running test before the stop
StopNotRunning ==
    /\ tool = "stop" /\ pc = "start"
    /\ IF docker = "absent"
       THEN pc' = "crashed" /\ exitCode' = UncaughtExitStatus
       ELSE IF ~stop_is_running(docker, running)
       THEN pc' = "done" /\ exitCode' = 0
       ELSE pc' = "issue" /\ exitCode' = exitCode
    /\ UNCHANGED <<tool, docker_vars, not_docker>>

\* stop.main: docker stop
StopIssue ==
    /\ tool = "stop" /\ pc = "issue"
    /\ \E ok \in Outcomes(docker, TRUE) :
          /\ cmds' = Append(cmds, [cmd |-> "stop", ok |-> ok])
          /\ running' \in (IF ok THEN BOOLEAN ELSE {running})
          /\ IF ok THEN pc' = "verify" /\ exitCode' = exitCode
                   ELSE pc' = "done" /\ exitCode' = 1
    /\ UNCHANGED <<tool, docker, dockerfile, exists, not_docker>>

\* stop.main: the is_running test after the stop only chooses the message
StopVerify ==
    /\ tool = "stop" /\ pc = "verify"
    /\ pc' = "done"
    /\ exitCode' = 0
    /\ UNCHANGED <<tool, docker_vars, not_docker>>

DockerNext ==
    \/ RebuildDockerfile \/ RebuildStop \/ RebuildBuild \/ RebuildRemove
    \/ StartExists \/ StartAlreadyRunning \/ StartIssue \/ StartVerify
    \/ StopNotRunning \/ StopIssue \/ StopVerify

DockerSpec == DockerInit /\ [][DockerNext]_vars

\* ------------------------- shellcheck.py: check_function_locals by line
ScanAlphabet == {LFuncOpen, LFuncKeyword, LFuncClose, LFuncCloseIndented, LAssign,
                 LLocalAssign}

ScanInit ==
    /\ tool = "shellcheck"
    /\ scanLines \in UNION { [1..n -> ScanAlphabet] : n \in 0..MaxScanLines }
    /\ scanPos = 1
    /\ scanSt = FnInit
    /\ pc = "scan"
    /\ exitCode = NoValue
    /\ base = "dir" /\ fs = <<>> /\ types = <<"sh">> /\ files = <<>> /\ idx = 1
    /\ fatal = "none" /\ effects = {}
    /\ bashAvailable = TRUE /\ log = <<>>
    /\ total_files = 0 /\ passed_files = 0 /\ failed_files = 0 /\ warnings = 0
    /\ total_scripts = 0 /\ passed_scripts = 0 /\ total_issues = 0
    /\ total_warnings = 0 /\ passed = 0
    /\ checkMode = FALSE /\ shfmtInstalled = FALSE
    /\ formatted = 0 /\ unchanged = 0 /\ failed = 0
    /\ docker = "up" /\ dockerfile = FALSE /\ exists = FALSE /\ running = FALSE
    /\ cmds = <<>>
    /\ target = <<>> /\ selected = <<>> /\ deployed = 0

\* one iteration of `for line in self.lines`
ScanLine ==
    /\ pc = "scan" /\ scanPos <= Len(scanLines)
    /\ scanSt' = FnStep(scanSt, scanLines[scanPos])
    /\ scanPos' = scanPos + 1
    /\ UNCHANGED <<tool, pc, exitCode, scanLines, base, fs, types, files, idx, fatal,
                   effects, analysis_only, format_vars, docker_vars, install_vars>>

\* the loop is over: check_function_locals returns
ScanEnd ==
    /\ pc = "scan" /\ scanPos > Len(scanLines)
    /\ pc' = "scanned"
    /\ UNCHANGED <<tool, exitCode, scan_vars, base, fs, types, files, idx, fatal,
                   effects, analysis_only, format_vars, docker_vars, install_vars>>

ScanNext == ScanLine \/ ScanEnd

ScanSpec == ScanInit /\ [][ScanNext]_vars

\* ------------------------------------------------------------ install.py
\* what the user may type at a yes/no prompt
Answers == {"", "y", "yes", "Y", " yes ", "n", "no", "maybe"}

\* input("   > ").strip().lower()
StripLower(answer) ==
    CASE answer = "Y" -> "y"
      [] answer = " yes " -> "yes"
      [] OTHER -> answer

\* variant of prompt_yes_no where an empty answer always means yes
prompt_yes_no_empty_is_yes(answer, default) ==
    LET response == StripLower(answer)
    IN  (IF response = "" THEN "y" ELSE response) \in {"y", "yes"}

prompt_yes_no(answer, default) ==
    LET response == StripLower(answer)
    IN  (IF response = "" THEN default ELSE response) \in {"y", "yes"}

\* the scripts scan_available_scripts offers, and source_file.name
Scripts == {"docker/start.py", "docker/status.sh"}

script_name(script) ==
    CASE script = "docker/start.py" -> "start.py"
      [] script = "docker/status.sh" -> "status.sh"

\* the files of the target directory install.py may write: the scripts and
\* the two theme files of deploy_theme; a file is "absent", holds what it
\* held before the run ("old") or the text install.py wrote ("new")
ThemeFiles == {"theme.sh", "theme.py"}

TargetFiles == { script_name(s) : s \in Scripts } \cup ThemeFiles

\* select_scripts: the scripts named by the numbers typed, in that order,
\* repeated if a number is
Selections == UNION { [1..n -> Scripts] : n \in 0..MaxSelected }

not_install == <<fs, types, files, bashAvailable, style_counters, lint_counters,
                 total_issues, sl_counters, checkMode, shfmtInstalled, formatted,
                 unchanged, docker_vars, scan_vars>>

InstallInit ==
    /\ tool = "install"
    /\ base \in {"dir", "missing"}
    /\ target \in [TargetFiles -> {"absent", "old"}]
    /\ base = "missing" => \A n \in TargetFiles : target[n] = "absent"
    /\ selected = <<>> /\ deployed = 0 /\ failed = 0
    /\ pc = "start"
    /\ exitCode = NoValue
    /\ fs = <<>> /\ types = <<"sh">> /\ files = <<>> /\ idx = 1
    /\ fatal = "none" /\ effects = {}
    /\ bashAvailable = TRUE /\ log = <<>>
    /\ total_files = 0 /\ passed_files = 0 /\ failed_files = 0 /\ warnings = 0
    /\ total_scripts = 0 /\ passed_scripts = 0 /\ total_issues = 0
    /\ total_warnings = 0 /\ passed = 0
    /\ checkMode = FALSE /\ shfmtInstalled = FALSE
    /\ formatted = 0 /\ unchanged = 0
    /\ docker = "up" /\ dockerfile = FALSE /\ exists = FALSE /\ running = FALSE
    /\ cmds = <<>>
    /\ scanLines = <<>> /\ scanPos = 1 /\ scanSt = FnInit

\* install.main: the target directory, created on request if it is missing
InstallTargetDir ==
    /\ tool = "install" /\ pc = "start"
    /\ IF base = "missing"
       THEN \E answer \in Answers, ok \in BOOLEAN :
                IF prompt_yes_no(answer, "y")
                THEN IF ok
                     THEN /\ base' = "dir" /\ pc' = "name"
                          /\ UNCHANGED <<fatal, exitCode>>
                     ELSE /\ fatal' = "Failed to create directory"
                          /\ pc' = "done" /\ exitCode' = 1 /\ base' = base
                ELSE /\ fatal' = "Installation cancelled"
                     /\ pc' = "done" /\ exitCode' = 1 /\ base' = base
       ELSE pc' = "name" /\ UNCHANGED <<base, fatal, exitCode>>
    /\ UNCHANGED <<tool, idx, log, effects, failed, install_vars, not_install>>

\* install.main: the container name is required
InstallContainerName ==
    /\ tool = "install" /\ pc = "name"
    /\ \E container_name \in {"", "name"} :
          IF container_name = ""
          THEN fatal' = "Container name is required" /\ pc' = "done" /\ exitCode' = 1
          ELSE pc' = "select" /\ UNCHANGED <<fatal, exitCode>>
    /\ UNCHANGED <<tool, base, idx, log, effects, failed, install_vars, not_install>>

\* install.main: select_scripts; an empty selection ends the run
InstallSelect ==
    /\ tool = "install" /\ pc = "select"
    /\ \E sel \in Selections :
          /\ selected' = sel
          /\ IF sel = <<>>
             THEN fatal' = "No scripts selected" /\ pc' = "done" /\ exitCode' = 1
             ELSE pc' = "confirm" /\ UNCHANGED <<fatal, exitCode>>
    /\ UNCHANGED <<tool, base, idx, log, effects, failed, target, deployed, not_install>>

\* install.main: "Install these scripts?", yes by default
InstallConfirm ==
    /\ tool = "install" /\ pc = "confirm"
    /\ \E answer \in Answers :
          IF ~prompt_yes_no(answer, "y")
          THEN fatal' = "Installation cancelled" /\ pc' = "done" /\ exitCode' = 0
          ELSE pc' = "theme" /\ UNCHANGED <<fatal, exitCode>>
    /\ UNCHANGED <<tool, base, idx, log, effects, failed, install_vars, not_install>>

\* deploy_theme: each theme file whose source exists is written over the
\* target's, without a question; a failure is a warning
InstallDeployTheme ==
    /\ tool = "install" /\ pc = "theme"
    /\ \E written \in SUBSET ThemeFiles :
          /\ target' = [n \in TargetFiles |-> IF n \in written THEN "new" ELSE target[n]]
          /\ effects' = effects \cup { <<n, "write_text">> : n \in written }
    /\ pc' = "loop" /\ idx' = 1
    /\ UNCHANGED <<tool, base, exitCode, fatal, log, failed, selected, deployed,
                   not_install>>

\* install.main: one iteration of `for script in selected_scripts`; the
\* log keeps the answer to the overwrite question, "unasked" without one
InstallScript ==
    /\ tool = "install" /\ pc = "loop" /\ idx <= Len(selected)
    /\ \E source_exists \in BOOLEAN, answer \in Answers, ok \in BOOLEAN :
          \E n \in {script_name(selected[idx])} :
              IF ~source_exists
              THEN /\ failed' = failed + 1
                   /\ log' = Append(log, [file |-> n, answer |-> "unasked",
                                           outcome |-> "failed"])
                   /\ UNCHANGED <<target, deployed, effects>>
              ELSE IF target[n] # "absent" /\ ~prompt_yes_no(answer, "n")
              THEN /\ log' = Append(log, [file |-> n, answer |-> answer,
                                           outcome |-> "skipped"])
                   /\ UNCHANGED <<target, deployed, failed, effects>>
              ELSE /\ log' = Append(log,
                            [file |-> n,
                             answer |-> IF target[n] # "absent" THEN answer ELSE "unasked",
                             outcome |-> IF ok THEN "deployed" ELSE "failed"])
                   /\ IF ok
                      THEN /\ target' = [target EXCEPT ![n] = "new"]
                           /\ effects' = effects \cup {<<n, "write_text">>}
                           /\ deployed' = deployed + 1 /\ failed' = failed
                      ELSE /\ \E wrote \in BOOLEAN :
                                 /\ target' = IF wrote THEN [target EXCEPT ![n] = "new"]
                                                      ELSE target
                                 /\ effects' = IF wrote
                                               THEN effects \cup {<<n, "write_text">>}
                                               ELSE effects
                           /\ failed' = failed + 1 /\ deployed' = deployed
    /\ idx' = idx + 1
    /\ UNCHANGED <<tool, base, pc, exitCode, fatal, selected, not_install>>

\* install.main: the closing messages
InstallSummary ==
    /\ tool = "install" /\ pc = "loop" /\ idx > Len(selected)
    /\ pc' = "done" /\ exitCode' = 0
    /\ UNCHANGED <<tool, base, idx, fatal, log, effects, failed, install_vars,
                   not_install>>

InstallNext ==
    \/ InstallTargetDir \/ InstallContainerName \/ InstallSelect \/ InstallConfirm
    \/ InstallDeployTheme \/ InstallScript \/ InstallSummary

InstallSpec == InstallInit /\ [][InstallNext]_vars

\* ------------------------------------------------------------ properties
Done == pc = "done"

\* files the run classified as failed
FailedCount ==
    CASE tool = "check_style" -> failed_files
      [] tool = "lint" -> total_scripts - passed_scripts
      [] tool = "shellcheck" -> Len(files) - passed

\* line numbers (1-based: one more than the newlines before it) of the
\* lines of a text that hold the ignore marker
MarkerLines(content) ==
    { 1 + Cardinality({ j \in 1..(i - 1) : content[j] = NL }) :
        i \in { i \in 1..Len(content) : content[i] = "STYLECHECK_IGNORE" } }

MarkerInFirstTen(f) == f.readable /\ \E n \in MarkerLines(f.content) : n <= 10

Last(seq) == seq[Len(seq)]

\* the loop is about to process candidate f
Processing(f) == pc = "loop" /\ f = fs[files[idx]]

\* C1: at the end of every style-checker run total_files = passed_files +
\* failed_files.
C1_TotalIsPassedPlusFailed ==
    (tool = "check_style" /\ Done) => total_files = passed_files + failed_files

C3_WarningsNeverFail ==
    (Done /\ files # <<>> /\ Len(log) = Len(files)
          /\ \A i \in 1..Len(log) : log[i].errors = 0) => exitCode = 0

\* C4: a file is classified as failed if and only if one of its findings is
\* Critical.
C4_CriticalDominance ==
    \A i \in 1..Len(log) : log[i].passed <=> log[i].errors = 0

\* C5: for a file with the marker in its first 10 lines check_file runs no
\* check, adds nothing to the warning tally or the issue count and
\* returns True.
C5_IgnoreExemption ==
    [][ (tool = "check_style" /\ pc = "loop" /\ MarkerInFirstTen(fs[files[idx]]))
        => /\ pc' # "crashed"
           /\ warnings' = warnings
           /\ failed_files' = failed_files
           /\ Len(log') = Len(log) + 1
           /\ Last(log').passed
           /\ Last(log').checks = 0
           /\ Last(log').issues = 0
           /\ Last(log').warns = 0 ]_vars

\* an exempted file that would otherwise have been reported
C5_Witness ==
    \E i \in 1..Len(log) :
        /\ tool = "check_style"
        /\ log[i].ignored /\ log[i].passed
        /\ check_colors(fs[log[i].file]).issues > 0
        /\ check_standards(fs[log[i].file]).issues > 0

\* C6: processing a file that carries the marker adds one to total_files
\* and one to passed_files and leaves failed_files and warnings alone.
C6_IgnoredFileCounted ==
    [][ (tool = "check_style" /\ pc = "loop" /\ MarkerInFirstTen(fs[files[idx]]))
        => /\ total_files' = total_files + 1
           /\ passed_files' = passed_files + 1
           /\ failed_files' = failed_files
           /\ warnings' = warnings ]_vars

\* C7: should_ignore is True exactly for the files with the marker on one
\* of lines 1..10; a file with the marker only on line 11 or later is not
\* exempt and all three checks run on it.
C7_FirstTenLinesOnly ==
    /\ \A i \in 1..Len(fs) :
          fs[i].readable => (should_ignore(fs[i]) <=> MarkerInFirstTen(fs[i]))
    /\ \A i \in 1..Len(log) :
          (tool = "check_style" /\ ~MarkerInFirstTen(fs[log[i].file]))
            => (~log[i].ignored /\ log[i].checks = 3)

\* a file whose only marker is on line 11 went through the checks
C7_Witness ==
    \E i \in 1..Len(log) :
        /\ tool = "check_style"
        /\ MarkerLines(fs[log[i].file].content) = {11}
        /\ ~log[i].ignored /\ log[i].checks = 3

\* C8: a scan that finds no candidate ends the run with exit code 1, in
\* every variant.
C8_NoFilesMatchedFails ==
    (Done /\ base # "missing" /\ files = <<>>) => exitCode = 1

\* C9: an unreadable candidate is recorded as failed with exactly one
\* Critical finding and the run goes on.
C9_UnreadableIsolated ==
    [][ (pc = "loop" /\ bashAvailable /\ ~fs[files[idx]].readable)
        => /\ pc' # "crashed"
           /\ Len(log') = Len(log) + 1
           /\ ~Last(log').passed
           /\ Last(log').errors = 1 ]_vars

\* C10: a check that cannot run (bash cannot be spawned) becomes a Critical
\* finding of that file and the run goes on.
C10_CheckErrorContained ==
    [][ (pc = "loop" /\ tool # "check_style" /\ ~bashAvailable /\ fs[files[idx]].readable)
        => /\ pc' # "crashed"
           /\ Len(log') = Len(log) + 1
           /\ ~Last(log').passed ]_vars

\* the file assigns 255;0;0 to RED
DefinesWrongRed(f) == f.readable /\ Contains(f.content, <<"RED", "=", "\"", "255;0;0", "\"">>)

\* C11: a shell file that defines RED="255;0;0" and has no Critical
\* violation gets exactly one colour warning, is counted as passed, and a run
\* over it alone returns 0.
C11_ColorMismatchStillPasses ==
    \A i \in 1..Len(log) :
        (/\ tool = "check_style"
         /\ DefinesWrongRed(fs[log[i].file])
         /\ ~log[i].ignored
         /\ log[i].errors = 0)
        => /\ check_colors(fs[log[i].file]).warnings = 1
           /\ log[i].passed
           /\ (Done /\ Len(files) = 1) => exitCode = 0

\* the text has no fail-fast directive, or no pipefail directive
LacksFailFast(f) ==
    /\ ~Contains(f.content, <<"set", " ", "-e">>)
    /\ ~Contains(f.content, <<"set", " ", "-o", " ", "errexit">>)

LacksPipefail(f) == ~Contains(f.content, <<"set", " ", "-o", " ", "pipefail">>)

LacksFlags(f) == f.readable /\ (LacksFailFast(f) \/ LacksPipefail(f))

\* the first characters of the text are #!, and #!/bin/bash
FirstLineHashBang(f) == f.readable /\ f.content # <<>> /\ f.content[1] = "#!"

FirstLineBashShebang(f) ==
    f.readable /\ Len(f.content) >= 3 /\ SubSeq(f.content, 1, 3) = <<"#!", "/bin/", "bash">>

\* the run has processed exactly the one candidate it found
SingleFileRun == Done /\ Len(files) = 1 /\ Len(log) = 1

\* C12 as claimed: a shell file without set -e / errexit and/or without
\* pipefail, and with no Critical violation, is classified as passed and does
\* not make the run return 1.
C12_MissingFlagsAdvisory ==
    \A i \in 1..Len(log) :
        (/\ LacksFlags(fs[log[i].file])
         /\ fs[log[i].file].suffix = "sh"
         /\ FirstLineBashShebang(fs[log[i].file])
         /\ fs[log[i].file].syntaxOk
         /\ ~log[i].ignored)
        => /\ log[i].passed
           /\ SingleFileRun => exitCode = 0

\* C12 amended: in lint.py and shellcheck.py such a file is classified as
\* passed and a run over it alone returns 0; check_style.py reports each
\* missing directive as an error, fails the file and returns 1.
C12_MissingFlagsAdvisoryInLinters ==
    \A i \in 1..Len(log) :
        (/\ LacksFlags(fs[log[i].file])
         /\ fs[log[i].file].suffix = "sh"
         /\ FirstLineHashBang(fs[log[i].file])
         /\ fs[log[i].file].syntaxOk
         /\ ~log[i].ignored)
        => IF tool = "check_style"
           THEN /\ ~log[i].passed
                /\ log[i].errors >= 1
                /\ Done => exitCode = 1
           ELSE /\ log[i].passed
                /\ log[i].errors = 0
                /\ log[i].warns >= 1
                /\ SingleFileRun => exitCode = 0

C12_Witness ==
    /\ tool = "lint" /\ SingleFileRun /\ exitCode = 0
    /\ LacksFailFast(fs[log[1].file]) /\ LacksPipefail(fs[log[1].file])
    /\ log[1].passed /\ log[1].warns >= 2

\* the first line names bash or python3 after #!
NamesExpectedInterpreter(f) ==
    \/ FirstLineBashShebang(f)
    \/ f.readable /\ Len(f.content) >= 3
          /\ SubSeq(f.content, 1, 3) = <<"#!", "/usr/bin/env ", "python3">>

\* the word bash occurs on the first line
FirstLineMentionsBash(f) ==
    /\ f.readable
    /\ \E k \in 1..Len(f.content) :
          /\ f.content[k] = "bash"
          /\ \A j \in 1..k : f.content[j] # NL

\* C13 as claimed: a first line without #! is a Critical finding; a first
\* line with #! that names another interpreter gives only a warning and
\* does not fail the file.
C13_ShebangSeverity ==
    \A i \in 1..Len(log) :
        (fs[log[i].file].readable /\ ~log[i].ignored)
        => /\ ~FirstLineHashBang(fs[log[i].file]) => (log[i].errors >= 1 /\ ~log[i].passed)
           /\ (/\ FirstLineHashBang(fs[log[i].file])
               /\ fs[log[i].file].syntaxOk
               /\ ~LacksFlags(fs[log[i].file]))
              => (log[i].errors = 0 /\ log[i].passed)

\* C13 amended: in all three tools a first line without #! is a Critical
\* finding.  With #! and no "bash" on the line, shellcheck.py gives one
\* warning and lint.py nothing, and neither fails the file; check_style.py
\* reports an error and fails the file unless the line starts with
\* #!/bin/bash or #!/usr/bin/env python3.
C13_ShebangSeverityPerTool ==
    /\ \A i \in 1..Len(fs) :
          fs[i].readable =>
            /\ lint_check_shebang(fs[i]) <=> FirstLineHashBang(fs[i])
            /\ sl_check_shebang(SplitLines(fs[i].content)).issues # <<>>
                  <=> ~FirstLineHashBang(fs[i])
            /\ sl_check_shebang(SplitLines(fs[i].content)).warnings # <<>>
                  <=> (FirstLineHashBang(fs[i]) /\ ~FirstLineMentionsBash(fs[i]))
    /\ \A i \in 1..Len(log) :
          (fs[log[i].file].readable /\ ~log[i].ignored)
          => /\ ~FirstLineHashBang(fs[log[i].file]) => (log[i].errors >= 1 /\ ~log[i].passed)
             /\ (/\ FirstLineHashBang(fs[log[i].file])
                 /\ ~FirstLineMentionsBash(fs[log[i].file])
                 /\ fs[log[i].file].syntaxOk
                 /\ ~LacksFlags(fs[log[i].file]))
                => IF tool = "check_style"
                   THEN IF NamesExpectedInterpreter(fs[log[i].file])
                        THEN log[i].errors = 0
                        ELSE log[i].errors = 1 /\ ~log[i].passed
                   ELSE /\ log[i].errors = 0 /\ log[i].passed
                        /\ log[i].warns = (IF tool = "shellcheck" THEN 1 ELSE 0)

C13_Witness ==
    \E i \in 1..Len(log) :
        /\ tool = "shellcheck"
        /\ FirstLineHashBang(fs[log[i].file])
        /\ ~FirstLineMentionsBash(fs[log[i].file])
        /\ log[i].passed /\ log[i].warns = 1

\* the text is empty or begins with a line break
BlankFirstLine(f) == f.readable /\ (f.content = <<>> \/ f.content[1] = NL)

\* C14: a file whose first line is blank, or an empty file, gets a Critical
\* missing-shebang finding from the shebang check, is classified as failed,
\* and the run ends with exit code 1.
C14_MissingShebangFails ==
    \A i \in 1..Len(log) :
        (BlankFirstLine(fs[log[i].file]) /\ ~log[i].ignored)
        => /\ log[i].errors >= 1
           /\ ~log[i].passed
           /\ tool = "lint" => ~lint_check_shebang(fs[log[i].file])
           /\ tool = "shellcheck" =>
                sl_check_shebang(SplitLines(fs[log[i].file].content)).issues
                    = <<"Missing shebang line">>
           /\ tool = "check_style" => check_standards(fs[log[i].file]).errors >= 1
           /\ pc \in {"done", "crashed"} => exitCode = 1

C14_Witness ==
    /\ tool = "lint" /\ Done /\ exitCode = 1
    /\ \E i \in 1..Len(log) :
          /\ fs[log[i].file].content # <<>>
          /\ BlankFirstLine(fs[log[i].file])
          /\ ~log[i].passed

\* the scan of main has been made
Scanned == pc # "start" /\ fatal # "Path not found"

\* C15 as claimed: when the base path is a single existing file, every
\* variant's scan returns exactly that file, whatever the requested
\* extensions and the file's own extension.
C15_ExplicitFileOverride ==
    (base = "file" /\ Scanned) => files = <<1>>

\* C15 amended: check_style.py and format.py return the single file whatever
\* the requested extensions and its own extension; lint.py returns it only
\* when its suffix is .sh, and otherwise finds nothing and returns 1.
C15_ExplicitFileOverrideExceptLint ==
    base = "file" =>
        /\ \A t \in TypeLists :
              /\ style_scan_files(base, fs, t) = <<1>>
              /\ format_scan_files(base, fs, t) = <<1>>
        /\ lint_scan_files(base, fs) = (IF fs[1].suffix = "sh" THEN <<1>> ELSE <<>>)
        /\ (Scanned /\ tool = "check_style") => files = <<1>>
        /\ (Scanned /\ tool = "lint" /\ fs[1].suffix = "sh") => files = <<1>>
        /\ (Scanned /\ tool = "lint" /\ fs[1].suffix # "sh") =>
              /\ files = <<>> /\ log = <<>>
              /\ exitCode = 1 /\ fatal = "No shell scripts found"

C15_Witness ==
    /\ tool = "check_style" /\ base = "file"
    /\ fs[1].suffix = "py" /\ types = <<"sh">>
    /\ files = <<1>> /\ Len(log) = 1 /\ log[1].file = 1

\* C16: for a directory and any list of extensions, also one naming the
\* same extension twice, the scan result is strictly increasing in path
\* order, so no file is analysed or counted twice.
C16_ScanSortedNoDuplicates ==
    base = "dir" =>
        /\ \A t \in TypeLists :
              \A i, j \in 1..Len(style_scan_files(base, fs, t)) :
                  i < j => style_scan_files(base, fs, t)[i] < style_scan_files(base, fs, t)[j]
        /\ \A i, j \in 1..Len(files) : i < j => files[i] < files[j]
        /\ \A i, j \in 1..Len(log) : i < j => log[i].file < log[j].file
        /\ total_files <= Len(fs)

\* C17: when the base path does not exist, the run reports it and returns 1
\* before any file is scanned or any check is run: no candidate, no analysed
\* file, no counter modified.
C17_PathNotFound ==
    base = "missing" =>
        /\ pc \in {"start", "done"}
        /\ files = <<>> /\ log = <<>> /\ idx = 1
        /\ total_files = 0 /\ passed_files = 0 /\ failed_files = 0 /\ warnings = 0
        /\ total_scripts = 0 /\ passed_scripts = 0 /\ total_issues = 0
        /\ Done => (exitCode = 1 /\ fatal = "Path not found")

C17_Witness ==
    /\ base = "missing" /\ tool = "lint" /\ Done
    /\ exitCode = 1 /\ fatal = "Path not found"

\* C18: when bash is missing, the linters report it once and end with a
\* non-zero exit code at startup, before the path is scanned and before any
\* candidate file is processed.
C18_ValidatorUnavailable ==
    (tool \in {"lint", "shellcheck"} /\ ~bashAvailable) =>
        /\ files = <<>> /\ log = <<>>
        /\ pc \in {"start", "done"}
        /\ Done => (exitCode # 0 /\ fatal \notin {"none", "Path not found", "No shell scripts found"})

\* the body assigns a bare variable and declares no local
AssignsWithoutLocal(body) ==
    /\ \E k \in 1..Len(body) : body[k] = LAssign
    /\ \A k \in 1..Len(body) : body[k] # LLocalAssign

\* C19: in shellcheck.py a function whose body is longer than the minimum
\* line threshold, assigns a bare lowercase variable and declares no local
\* yields one warning for the file; a function with a one-line body doing
\* the same yields none.
C19_LocalVariableDiscipline ==
    \A i \in 1..Len(log) : \A b \in FunctionBodies :
        (tool = "shellcheck" /\ fs[log[i].file].content = JoinLines(BodyFunc(b)))
        => /\ (AssignsWithoutLocal(b) /\ Len(b) > MinFunctionLines)
                => /\ sl_check_function_locals(BodyFunc(b))
                        = <<"Function assigns variables without 'local'">>
                   /\ log[i].warns = 1
           /\ (~AssignsWithoutLocal(b) \/ Len(b) = 1)
                => /\ sl_check_function_locals(BodyFunc(b)) = <<>>
                   /\ log[i].warns = 0
           /\ log[i].passed

C19_Witness ==
    \E i \in 1..Len(log) :
        /\ tool = "shellcheck"
        /\ fs[log[i].file].content = JoinLines(BodyFunc(<<LEcho, LAssign, LEcho>>))
        /\ log[i].warns = 1 /\ log[i].passed

\* the arrangements of 1..n, and the exchanges of two positions
RECURSIVE Arrangements(_)
Arrangements(S) ==
    IF S = {} THEN {<<>>}
    ELSE UNION { { <<x>> \o p : p \in Arrangements(S \ {x}) } : x \in S }

Exchange(n, a, b) == [i \in 1..n |-> IF i = a THEN b ELSE IF i = b THEN a ELSE i]

Reorderings(n) ==
    { Exchange(n, a, b) : a, b \in 1..n }
    \cup (IF n <= MaxPermLen THEN Arrangements(1..n) ELSE {})

Rearranged(rs, p) == [i \in 1..Len(rs) |-> rs[p[i]]]

Ended == pc \in {"done", "crashed"} /\ files # <<>>

\* C21: processing the candidate files in any other order yields the same
\* final summary (total, passed, failed, warnings) and the same exit code as
\* the run made, in check_style.py and in lint.py.
C21_OrderIndependence ==
    /\ (tool = "check_style" /\ Ended) =>
          \E rs \in { [i \in 1..Len(files) |-> style_file_result(fs[files[i]])] } :
              /\ StyleRun(rs) = [crashed |-> pc = "crashed",
                                 total |-> IF pc = "crashed" THEN 0 ELSE total_files,
                                 passed |-> IF pc = "crashed" THEN 0 ELSE passed_files,
                                 failed |-> IF pc = "crashed" THEN 0 ELSE failed_files,
                                 warnings |-> IF pc = "crashed" THEN 0 ELSE warnings,
                                 exitCode |-> exitCode]
              /\ \A p \in Reorderings(Len(rs)) : StyleRun(Rearranged(rs, p)) = StyleRun(rs)
    /\ (tool = "lint" /\ Ended) =>
          \E rs \in { [i \in 1..Len(files) |-> lint_file_result(fs[files[i]], bashAvailable)] } :
              /\ LintRun(rs) = [crashed |-> pc = "crashed",
                                total |-> IF pc = "crashed" THEN 0 ELSE total_scripts,
                                passed |-> IF pc = "crashed" THEN 0 ELSE passed_scripts,
                                issues |-> IF pc = "crashed" THEN 0 ELSE total_issues,
                                exitCode |-> exitCode]
              /\ \A p \in Reorderings(Len(rs)) : LintRun(Rearranged(rs, p)) = LintRun(rs)

C21_Witness ==
    /\ tool = "check_style" /\ Done /\ Len(files) = 3
    /\ passed_files = 1 /\ failed_files = 2 /\ exitCode = 1
    /\ log[1].passed /\ ~log[2].passed

\* calls that leave a file's contents and mode bits as they are
ReadingOps == {"read_text", "bash -n", "stat"}

\* C22: no step of a style-check or lint run writes, renames, deletes or
\* changes the permissions of a candidate file: every call made on a
\* candidate is a reading one, and contents and mode bits stay as they were.
C22_ReadOnlyOnInputs ==
    [][/\ fs' = fs
       /\ \A e \in effects' : e[2] \in ReadingOps]_vars

C22_Witness ==
    /\ Done /\ Len(log) = 2
    /\ \E e \in effects : e[1] = 2 /\ e[2] = "bash -n"

\* shfmt -d reports a difference for a candidate
NeedsFormatting == \E i \in 1..Len(files) : fs[files[i]].shfmt # "clean"

\* C23: with --check, format_file never invokes shfmt -w on any file and no
\* file changes, whatever the diff says; and a run over its candidates
\* returns 1 if at least one of them needs formatting and 0 if every one is
\* already formatted.
C23_CheckModeNeverWrites ==
    [][checkMode =>
         /\ fs' = fs
         /\ \A e \in effects' : e[2] # "shfmt -w"
         /\ (pc' = "done" /\ files' # <<>>)
               => exitCode' = (IF NeedsFormatting' THEN 1 ELSE 0)]_vars

C23_Witness ==
    /\ tool = "format" /\ checkMode /\ Done /\ exitCode = 1
    /\ Len(files) >= 2
    /\ fs[files[1]].shfmt = "clean" /\ fs[files[2]].shfmt = "dirty"
    /\ <<files[2], "shfmt -d">> \in effects

\* C24: after a rebuild run in which every step succeeds, the container has
\* been started again: it exists and is running when the script ends.
C24_RebuildRestarts ==
    (/\ tool = "rebuild" /\ pc = "done" /\ exitCode = 0
     /\ \A i \in 1..Len(cmds) : cmds[i].ok)
    => (exists /\ running)

\* the line the scan is about to take, and the body lines between the
\* declaration at j and the line at k
ScanCurrent == scanLines[scanPos]

DeclarationLines == {LFuncOpen, LFuncKeyword}

OpenBody(j, k) ==
    /\ scanLines[j] \in DeclarationLines
    /\ \A m \in (j + 1)..(k - 1) :
          scanLines[m] \notin DeclarationLines \cup {LFuncClose, LFuncCloseIndented}

\* what C25 says of entering the function state and of the warning
ScanEntersAndWarns ==
    /\ (~scanSt.in_function /\ scanSt'.in_function) => ScanCurrent \in DeclarationLines
    /\ scanSt'.warnings # scanSt.warnings =>
          /\ scanSt.in_function /\ ~scanSt'.in_function
          /\ scanSt'.warnings
                = Append(scanSt.warnings, "Function assigns variables without 'local'")
          /\ \E j \in 1..(scanPos - 1) :
                /\ OpenBody(j, scanPos)
                /\ scanPos - 1 - j > MinFunctionLines
                /\ \E m \in (j + 1)..(scanPos - 1) : scanLines[m] = LAssign
                /\ \A m \in (j + 1)..(scanPos - 1) : scanLines[m] # LLocalAssign

\* C25 as claimed: the scan enters the function state only on a declaration
\* line, leaves it only on a line that is exactly the closing brace, and
\* appends a warning only while processing such a closing line, at most one
\* per closed function, none for a function never closed or reset by a later
\* declaration.
C25_FunctionScanMachine ==
    [][scanPos' # scanPos =>
         /\ ScanEntersAndWarns
         /\ (scanSt.in_function /\ ~scanSt'.in_function) => ScanCurrent = LFuncClose]_vars

\* C25 amended: as claimed, except that the function state is left, and the
\* warning appended, on any line that is the closing brace once surrounding
\* whitespace is stripped.
C25_FunctionScanMachineStripped ==
    [][scanPos' # scanPos =>
         /\ ScanEntersAndWarns
         /\ (scanSt.in_function /\ ~scanSt'.in_function)
               => ScanCurrent \in {LFuncClose, LFuncCloseIndented}]_vars

C25_Witness ==
    /\ pc = "scanned"
    /\ scanLines = <<LFuncOpen, LAssign, LAssign, LAssign, LFuncCloseIndented, LFuncClose>>
    /\ Len(scanSt.warnings) = 1

\* colour names the text assigns, as a whole variable name, a value other
\* than the expected code
WronglyAssigned(f) ==
    { c \in ColorNames :
        \E k \in 1..(Len(f.content) - 3) :
            /\ f.content[k] = c /\ f.content[k + 1] = "=" /\ f.content[k + 2] = "\""
            /\ k = 1 \/ f.content[k - 1] \in {NL, " "}
            /\ f.content[k + 3] # EXPECTED_COLORS[c] }

\* C26: check_colors warns for a colour name exactly when the file assigns
\* a variable of exactly that name a value other than the expected code: a
\* name that merely ends in the colour name (MY_RED=, CONTEXT=) never
\* triggers the warning, and the expected code under another name does not
\* suppress it.
C26_ColorDetectionAnchored ==
    \A i \in 1..Len(log) :
        (tool = "check_style" /\ ~log[i].ignored)
        => check_colors(fs[log[i].file]).warnings
               = Cardinality(WronglyAssigned(fs[log[i].file]))

\* an uppercase name of one or two sample tokens, followed by =, at k
UpperNameAssignedAt(c, k) ==
    /\ k + 1 <= Len(c)
    /\ c[k] \in UpperTokens
    /\ \/ c[k + 1] = "="
       \/ k + 2 <= Len(c) /\ c[k + 1] \in UpperTokens /\ c[k + 2] = "="

\* position k is the first of its line, leading whitespace apart
FirstOfLine(c, k) ==
    \/ k = 1
    \/ c[k - 1] = NL
    \/ c[k - 1] \in WS /\ (k = 2 \/ c[k - 2] = NL)

\* some line starts with NAME=; some line is, leading whitespace apart, a
\* readonly NAME= declaration
StartsWithUpperAssignment(f) ==
    \E k \in 1..Len(f.content) :
        (k = 1 \/ f.content[k - 1] = NL) /\ UpperNameAssignedAt(f.content, k)

HasReadonlyDeclaration(f) ==
    \E k \in 1..(Len(f.content) - 2) :
        /\ f.content[k] = "readonly" /\ FirstOfLine(f.content, k)
        /\ f.content[k + 1] \in WS
        /\ UpperNameAssignedAt(f.content, k + 2)

\* C27: check_readonly_usage gives its warning if and only if some line
\* starts with an uppercase-named assignment and no line is, after leading
\* whitespace, a readonly NAME= declaration; one declaration anywhere
\* suppresses it for all assignments, and a file gets at most one.
C27_ReadonlyUsage ==
    \A i \in 1..Len(fs) :
        fs[i].readable =>
            sl_check_readonly_usage(SplitLines(fs[i].content))
              = (IF StartsWithUpperAssignment(fs[i]) /\ ~HasReadonlyDeclaration(fs[i])
                 THEN <<"Uppercase variables found but not marked 'readonly'">>
                 ELSE <<>>)

C27_Witness ==
    /\ tool = "shellcheck" /\ Len(log) = 1
    /\ fs[log[1].file].content = JoinLines(BodyMyRed)
    /\ log[1].warns = 1 /\ log[1].passed

\* the place of a docker command in the order of rebuild.main
StepRank(c) == CASE c = "stop" -> 1 [] c = "build" -> 2 [] c = "rm" -> 3 [] OTHER -> 4

Issued(c) == \E i \in 1..Len(cmds) : cmds[i].cmd = c

IssuedNow(c) == Len(cmds') = Len(cmds) + 1 /\ cmds'[Len(cmds')].cmd = c

\* the commands issued so far, as rebuild.py may issue them: in the order
\* stop, build, rm, each at most once, none after a failed one
RebuildOrder ==
    /\ \A i, j \in 1..Len(cmds) : i < j => StepRank(cmds[i].cmd) < StepRank(cmds[j].cmd)
    /\ \A i \in 1..Len(cmds) : StepRank(cmds[i].cmd) <= 3
    /\ \A i \in 1..Len(cmds) : i < Len(cmds) => cmds[i].ok
    /\ Issued("rm") => \E i \in 1..Len(cmds) : cmds[i].cmd = "build" /\ cmds[i].ok
    /\ Issued("build") => dockerfile
    /\ cmds # <<>> /\ ~cmds[Len(cmds)].ok => pc = "done" /\ exitCode = 1
    /\ ~dockerfile /\ pc = "done" => exitCode = 1 /\ cmds = <<>>

\* C28: rebuild.py issues stop (only if the container runs), then build,
\* then rm (only if the container exists); a failed step exits with 1 and
\* nothing is issued after it: no rm without a successful build, no build
\* without the Dockerfile or after a failed stop.
C28_RebuildStepOrder ==
    [][tool = "rebuild" =>
        /\ RebuildOrder'
        /\ IssuedNow("stop") => running /\ cmds = <<>>
        /\ IssuedNow("build") => ~Issued("build") /\ ~Issued("rm")
        /\ IssuedNow("rm") => exists /\ Issued("build")]_vars

C28_Witness ==
    /\ tool = "rebuild" /\ pc = "done" /\ exitCode = 0
    /\ cmds = <<[cmd |-> "stop", ok |-> TRUE], [cmd |-> "build", ok |-> TRUE],
                [cmd |-> "rm", ok |-> TRUE]>>

\* C29: start.py issues docker start only for a container that exists and
\* is not running; it exits 1 without a start when the container does not
\* exist, 0 without a start when it runs already, and after a start exits 0
\* only if is_running is true then, otherwise 1.
C29_StartGuarded ==
    [][tool = "start" =>
        /\ IssuedNow("start") =>
              /\ cmds = <<>>
              /\ container_exists(docker, exists) /\ exists
              /\ ~is_running(docker, running) /\ ~running
        /\ pc' = "done" /\ ~container_exists(docker, exists) =>
              cmds' = <<>> /\ exitCode' = 1
        /\ pc' = "done" /\ container_exists(docker, exists) /\ cmds' = <<>> =>
              is_running(docker, running) /\ exitCode' = 0
        /\ pc = "check_running" /\ is_running(docker, running) =>
              pc' = "done" /\ cmds' = <<>> /\ exitCode' = 0
        /\ pc' = "done" /\ cmds' # <<>> =>
              exitCode' = (IF cmds'[1].ok /\ is_running(docker, running') THEN 0 ELSE 1)]_vars

C29_Witness ==
    /\ tool = "start" /\ pc = "done" /\ exitCode = 1
    /\ cmds = <<[cmd |-> "start", ok |-> TRUE]>>
    /\ ~running

\* the answers that confirm an overwrite; the empty answer is none of them
Affirmative == {"y", "yes", "Y", " yes "}

\* target file n held something and holds something else after the step
Overwritten(n) == target[n] # "absent" /\ target'[n] # target[n]

\* the step asked about n and the user confirmed
ConfirmedNow(n) ==
    /\ Len(log') = Len(log) + 1
    /\ log'[Len(log')].file = n
    /\ log'[Len(log')].answer \in Affirmative

SkippedNow ==
    Len(log') = Len(log) + 1 /\ log'[Len(log')].outcome = "skipped"

\* C30 as stated: no existing file of the target directory is overwritten
\* without a confirmed overwrite question.
C30_NoOverwriteUnconfirmed ==
    [][tool = "install" =>
        \A n \in TargetFiles : Overwritten(n) => ConfirmedNow(n)]_vars

\* C30: the existing target file of a selected script changes only in the
\* iteration for that script and only after y/yes to its overwrite
\* question (an empty answer is a no); a skipped script is counted neither
\* as deployed nor as failed; nothing is written when the container name is
\* empty, no script is selected or the final confirmation is declined.
\* deploy_theme writes theme.sh and theme.py without a question.
C30_NoScriptOverwriteUnconfirmed ==
    [][tool = "install" =>
        /\ \A s \in Scripts :
              Overwritten(script_name(s)) =>
                  /\ pc = "loop" /\ idx <= Len(selected)
                  /\ script_name(selected[idx]) = script_name(s)
                  /\ ConfirmedNow(script_name(s))
        /\ \A n \in ThemeFiles : Overwritten(n) => pc = "theme"
        /\ SkippedNow => /\ deployed' = deployed /\ failed' = failed
                         /\ target' = target
        /\ fatal' # "none" => effects' = {} /\ target' = target /\ deployed' = 0]_vars

C30_Witness ==
    /\ tool = "install" /\ pc = "done" /\ Len(log) = 2
    /\ log[1].outcome = "skipped" /\ log[1].answer = ""
    /\ log[2].outcome = "deployed" /\ log[2].answer = "yes"
    /\ target[log[1].file] = "old" /\ target[log[2].file] = "new"
    /\ deployed = 1 /\ failed = 0

====
